---- MODULE Spec2Model ----
(***************************************************************************)
(* A model of the Stutra database tooling: the schema migration of         *)
(* scripts/db_manager.py (StutraDB.migrate_to_multisection), its integrity *)
(* validator, and the conflict check of the CSV section migrator           *)
(* (scripts/migrate_sections_enhanced.py).                                 *)
(*                                                                         *)
(* The remote store is a JSON tree.  A JSON object is a TLA+ function from *)
(* field names to values, so that "field in record" is "field \in DOMAIN". *)
(* A string that the code inspects (a section name, an admission number)   *)
(* is a sequence of one-character strings; a JSON value whose type the     *)
(* code tests is tagged (JList, JStr).                                     *)
(***************************************************************************)
EXTENDS Integers, Sequences, FiniteSets, TLC

VARIABLES
    students,            \* store: /students, key -> student record
    sections,            \* store: /sections, key -> section record
    nextKey,             \* store: number of keys the server has generated (POST)
    now,                 \* datetime.now(), a logical clock
    pc,                  \* migrate_to_multisection: position in the run
    runs,                \* number of runs of migrate_to_multisection started
    backup,              \* backup_database: the artifact written by this run
    students_data,       \* migrate_to_multisection: local students_data
    todo,                \* migrate_to_multisection: student_items still to visit
    sections_to_create,  \* migrate_to_multisection: local set
    pending,             \* migrate_to_multisection: names of the set still to visit
    migrated_count,      \* migrate_to_multisection: local counter
    issued,              \* PUT/POST requests issued by this run (failed ones too)
    failedOp,            \* the request whose failure ended the run ("none" if none)
    startStudents,       \* ghost: /students when the run started
    startSections,       \* ghost: /sections when the run started
    rewritten,           \* ghost: keys whose record this run has rewritten
    createdKeys,         \* ghost: section keys this run has created
    putKeys,             \* ghost: student keys this run has issued a PUT for
    prevOutcome,         \* ghost: how the previous run ended ("none" before any)
    report,              \* validate_data_integrity: the last report
    upc,                 \* upload_section_to_firebase: position in the call
    uploads,             \* number of calls of upload_section_to_firebase started
    adds,                \* number of calls of add_student made
    students_in,         \* upload_section_to_firebase: parameter students
    up_section_name,     \* upload_section_to_firebase: parameter section_name
    fetched,             \* check_existing_students: whether the collection was read
    conflicts,           \* check_existing_students: local conflicts
    choice,              \* check_existing_students: the operator's answer
    students_to_upload,  \* upload_section_to_firebase: local
    idx,                 \* upload_section_to_firebase: position in the student loop
    successful_uploads,  \* upload_section_to_firebase: local counter
    upResult,            \* upload_section_to_firebase: the value returned
    existing_data,       \* ghost: /students as check_existing_students read it
    uploaded,            \* ghost: candidates this call has stored
    upIssued,            \* ghost: PUT requests this call has issued
    csv_reader,          \* read_csv_file: the class whose method runs
    csv_rows,            \* read_csv_file: the rows of the file
    csv_pos,             \* read_csv_file: the row the loop is at
    csv_students,        \* read_csv_file: local students
    csv_state,           \* read_csv_file: reading, returned or raised
    bk_pc,               \* restore_database: Idle, Prompting or Loading
    bk_file,             \* the backup file on disk
    bk_confirm,          \* restore_database: the confirm argument
    bk_response,         \* restore_database: local response
    bk_commands,         \* commands the operator has run
    bk_outcome,          \* how the last restore_database call ended
    bk_tree,             \* ghost: the store when the backup was taken
    bk_writes,           \* ghost: writes to the store since the backup
    bk_puts,             \* ghost: root PUTs the restore call has issued
    teachers,            \* the store: /teachers
    ix_pc,               \* per client: Idle, Reading or Writing
    ix_kind,             \* per client: the call is add_student or add_teacher
    ix_id,               \* per client: student_id / teacher_id
    ix_todo,             \* per client: the sections the loop has yet to visit
    ix_list,             \* per client: students_list / teachers_list
    ix_calls,            \* calls started
    ix_failed,           \* ghost: a request of some call failed
    ix_interleaved,      \* ghost: a call started while another was running
    ix_stale,            \* ghost: a list was written that was read before
                         \* another write of the same list
    ix_added,            \* ghost: the (kind, id, section) whose add ended
    successful_migrations, \* migrate_all_sections: local counter
    total_students,      \* migrate_all_sections: local counter
    written_total,       \* ghost: student records the uploads have stored
    ad_commands,         \* commands the operator has run to their end
    ad_op,               \* the last command
    ad_id,               \* the id the last command was about
    ad_args,             \* the sections the last command was given
    ad_deletes,          \* ghost: DELETE requests the last command issued
    ad_before            \* ghost: the store before the last command

migVars == <<pc, runs, backup, students_data, todo, sections_to_create, pending,
             migrated_count, issued, failedOp, startStudents, startSections,
             rewritten, createdKeys, putKeys, prevOutcome>>

upVars == <<upc, uploads, adds, students_in, up_section_name, fetched, conflicts,
            choice, students_to_upload, idx, successful_uploads, upResult,
            existing_data, uploaded, upIssued>>

csvVars == <<csv_reader, csv_rows, csv_pos, csv_students, csv_state>>

ixVars == <<teachers, ix_pc, ix_kind, ix_id, ix_todo, ix_list, ix_calls,
            ix_failed, ix_interleaved, ix_stale, ix_added>>

bkVars == <<bk_pc, bk_file, bk_confirm, bk_response, bk_commands, bk_outcome,
            bk_tree, bk_writes, bk_puts>>

\* What the operations of db_manager.py and of the upload leave alone.
sumVars == <<successful_migrations, total_students, written_total>>

adVars == <<ad_commands, ad_op, ad_id, ad_args, ad_deletes, ad_before>>

extVars == <<csvVars, bkVars, ixVars, sumVars, adVars>>

\* The store, the migration run, the validator and the upload.
coreVars == <<students, sections, nextKey, now, migVars, report, upVars>>

csvFrame == <<coreVars, bkVars, ixVars, sumVars, adVars>>
bkFrame == <<nextKey, now, migVars, report, upVars, csvVars, ixVars, sumVars,
             adVars>>
ixFrame == <<migVars, report, upVars, csvVars, bkVars, sumVars, adVars>>
adFrame == <<migVars, report, upVars, csvVars, bkVars, sumVars, ix_pc, ix_kind,
             ix_id, ix_todo, ix_list, ix_calls, ix_failed, ix_interleaved,
             ix_stale, ix_added>>

(***************************************************************************)
(* Bounds of the model.                                                    *)
(***************************************************************************)
MaxStudents == 2
MaxRuns == 2

(***************************************************************************)
(* Strings and JSON values.                                                *)
(***************************************************************************)
NameA == <<"X", " ", "A">>
NameB == <<"B">>
Default == <<"d", "e", "f", "a", "u", "l", "t">>
RealNames == {NameA, NameB}

JList(s) == [t |-> "list", v |-> s]
JStr(s) == [t |-> "str", v |-> s]
IsList(j) == j.t = "list"

Has(rec, field) == field \in DOMAIN rec
\* dict.get(field, dflt)
Get(rec, field, dflt) == IF Has(rec, field) THEN rec[field] ELSE dflt
\* rec[field] = value
Put(rec, field, value) == [f \in DOMAIN rec \cup {field} |->
                              IF f = field THEN value ELSE rec[f]]
\* del rec[field]
Del(rec, field) == [f \in DOMAIN rec \ {field} |-> rec[f]]

EmptyObj == <<>>

\* section_name.replace(' ', '_').lower(), character by character
LowerChar(c) == CASE c = "A" -> "a" [] c = "B" -> "b" [] c = "X" -> "x"
                  [] OTHER -> c
SlugChar(c) == LowerChar(IF c = " " THEN "_" ELSE c)
Slug(name) == [i \in 1..Len(name) |-> SlugChar(name[i])]

Range(s) == {s[i] : i \in 1..Len(s)}

(***************************************************************************)
(* The store.  Student keys are returned in key order; the server          *)
(* generates the key of a POSTed record.                                   *)
(***************************************************************************)
KeyStr(i) == <<"1", "2", "3", "4", "5", "6", "7", "8", "9">>[i]
StudentKeys == {KeyStr(i) : i \in 1..MaxStudents}
\* The key the server generates for the n-th POST, for a student record.
GenStudentKey(n) ==
    <<"-N1", "-N2", "-N3", "-N4", "-N5", "-N6", "-N7", "-N8", "-N9">>[n]
KeyIndex(k) ==
    IF \E i \in 1..9 : GenStudentKey(i) = k
    THEN CHOOSE i \in 1..9 : GenStudentKey(i) = k
    ELSE 9 + CHOOSE i \in 1..9 : KeyStr(i) = k

RECURSIVE SortedKeys(_)
SortedKeys(keys) ==
    IF keys = {} THEN <<>>
    ELSE LET k == CHOOSE x \in keys : \A y \in keys : KeyIndex(x) <= KeyIndex(y)
         IN  <<k>> \o SortedKeys(keys \ {k})

\* The key the server generates for the n-th POST, for a section record.
GenKey(n) == <<"-", "N", KeyStr(n)>>

\* PUT <collection>/<key>: full replace of the child
StorePut(coll, key, value) ==
    [k \in DOMAIN coll \cup {key} |-> IF k = key THEN value ELSE coll[k]]

NoBackup == [made |-> FALSE]
\* validate_data_integrity has not been run on the store as it is
NoReport == [ran |-> FALSE]
Artifact(stu, sec) == [made |-> TRUE, students |-> stu, sections |-> sec]

(***************************************************************************)
(* StutraDB.migrate_to_multisection, one action per store request.  A      *)
(* failing request ends the process: _make_request calls sys.exit(1).      *)
(***************************************************************************)

\* a record with an empty sections array taken for one not yet migrated
IsMigrated_Truthy(student_data) ==
    /\ Has(student_data, "sections")
    /\ IsList(student_data["sections"])
    /\ student_data["sections"].v # <<>>

\* line 351: the record already has a sections array
IsMigrated(student_data) ==
    Has(student_data, "sections") /\ IsList(student_data["sections"])

\* line 355
OldSection(student_data) == Get(student_data, "section", Default)

\* the legacy field left in the record
MigratedRecord_KeepsSection(student_data, stamp) ==
    Put(Put(student_data, "sections", JList(<<OldSection(student_data)>>)),
        "updatedAt", stamp)

\* lines 358-363: the record the run writes back
MigratedRecord(student_data, stamp) ==
    Del(Put(Put(student_data, "sections", JList(<<OldSection(student_data)>>)),
            "updatedAt", stamp),
        "section")

\* create_section, lines 194-200
SectionData(name, stamp) ==
    [name |-> name, teachers |-> <<>>, students |-> <<>>,
     createdAt |-> stamp, updatedAt |-> stamp]

\* line 377
WantsSection(section_name) == section_name # <<>> /\ section_name # Default

\* sys.exit(1) in _make_request
Exit(op) ==
    /\ pc' = "Exited"
    /\ failedOp' = op

\* lines 333-334, backup_database: GET of the root, written to the artifact
BackupOk ==
    /\ pc = "NotStarted"
    /\ backup' = Artifact(students, sections)
    /\ pc' = "BackedUp"
    /\ UNCHANGED <<students, sections, nextKey, now, runs, students_data, todo,
                   sections_to_create, pending, migrated_count, issued, failedOp,
                   startStudents, startSections, rewritten, createdKeys>>
    /\ UNCHANGED <<putKeys, prevOutcome, report, upVars, extVars>>

\* the GET of the root fails (sys.exit) or the artifact cannot be written
\* (open raises): the run ends before its first request to /students
BackupFail ==
    /\ pc = "NotStarted"
    /\ Exit("backup")
    /\ UNCHANGED <<students, sections, nextKey, now, runs, backup, students_data,
                   todo, sections_to_create, pending, migrated_count, issued,
                   startStudents, startSections, rewritten, createdKeys>>
    /\ UNCHANGED <<putKeys, prevOutcome, report, upVars, extVars>>

\* the run started without waiting for the backup
FetchStudentsOk_NoBackup ==
    /\ pc \in {"NotStarted", "BackedUp"}
    /\ students_data' = students
    /\ todo' = SortedKeys(DOMAIN students)
    /\ sections_to_create' = {}
    /\ migrated_count' = 0
    /\ pc' = "Migrating"
    /\ UNCHANGED <<students, sections, nextKey, now, runs, backup, pending, issued,
                   failedOp, startStudents, startSections, rewritten, createdKeys>>
    /\ UNCHANGED <<putKeys, prevOutcome, report, upVars, extVars>>

\* lines 337-347: the collection as a dict; read as a list (line 345) it
\* gives the same (key, record) pairs, the index being the key
FetchStudentsOk ==
    /\ pc = "BackedUp"
    /\ students_data' = students
    /\ todo' = SortedKeys(DOMAIN students)
    /\ sections_to_create' = {}
    /\ migrated_count' = 0
    /\ pc' = "Migrating"
    /\ UNCHANGED <<students, sections, nextKey, now, runs, backup, pending, issued,
                   failedOp, startStudents, startSections, rewritten, createdKeys>>
    /\ UNCHANGED <<putKeys, prevOutcome, report, upVars, extVars>>

FetchStudentsFail ==
    /\ pc = "BackedUp"
    /\ Exit("get")
    /\ UNCHANGED <<students, sections, nextKey, now, runs, backup, students_data,
                   todo, sections_to_create, pending, migrated_count, issued,
                   startStudents, startSections, rewritten, createdKeys>>
    /\ UNCHANGED <<putKeys, prevOutcome, report, upVars, extVars>>

\* lines 349-352
SkipMigrated ==
    /\ pc = "Migrating"
    /\ todo # <<>>
    /\ IsMigrated(students_data[Head(todo)])
    /\ todo' = Tail(todo)
    /\ UNCHANGED <<students, sections, nextKey, now, pc, runs, backup,
                   students_data, sections_to_create, pending, migrated_count,
                   issued, failedOp, startStudents, startSections, rewritten,
                   createdKeys>>
    /\ UNCHANGED <<putKeys, prevOutcome, report, upVars, extVars>>

\* lines 354-372
MigrateStudentOk ==
    /\ pc = "Migrating"
    /\ todo # <<>>
    /\ ~IsMigrated(students_data[Head(todo)])
    /\ LET student_id == Head(todo)
           old_section == OldSection(students_data[student_id])
           new_data == MigratedRecord(students_data[student_id], now)
       IN  /\ students' = StorePut(students, student_id, new_data)
           /\ students_data' = [students_data EXCEPT ![student_id] = new_data]
           /\ sections_to_create' = sections_to_create \cup {old_section}
           /\ rewritten' = rewritten \cup {student_id}
    /\ migrated_count' = migrated_count + 1
    /\ issued' = issued + 1
    /\ putKeys' = putKeys \cup {Head(todo)}
    /\ now' = now + 1
    /\ todo' = Tail(todo)
    /\ UNCHANGED <<sections, nextKey, pc, runs, backup, pending, failedOp,
                   startStudents, startSections, createdKeys>>
    /\ UNCHANGED <<prevOutcome, report, upVars, extVars>>

MigrateStudentFail ==
    /\ pc = "Migrating"
    /\ todo # <<>>
    /\ ~IsMigrated(students_data[Head(todo)])
    /\ issued' = issued + 1
    /\ putKeys' = putKeys \cup {Head(todo)}
    /\ Exit("put")
    /\ UNCHANGED <<students, sections, nextKey, now, runs, backup, students_data,
                   todo, sections_to_create, pending, migrated_count,
                   startStudents, startSections, rewritten, createdKeys>>
    /\ UNCHANGED <<prevOutcome, report, upVars, extVars>>

\* line 375: the student loop is over
BeginSections ==
    /\ pc = "Migrating"
    /\ todo = <<>>
    /\ pending' = sections_to_create
    /\ pc' = "Creating"
    /\ UNCHANGED <<students, sections, nextKey, now, runs, backup, students_data,
                   todo, sections_to_create, migrated_count, issued, failedOp,
                   startStudents, startSections, rewritten, createdKeys>>
    /\ UNCHANGED <<putKeys, prevOutcome, report, upVars, extVars>>

\* lines 376-377: a name the loop passes over
SkipSection ==
    /\ pc = "Creating"
    /\ \E section_name \in pending :
          /\ ~WantsSection(section_name)
          /\ pending' = pending \ {section_name}
    /\ UNCHANGED <<students, sections, nextKey, now, pc, runs, backup,
                   students_data, todo, sections_to_create, migrated_count, issued,
                   failedOp, startStudents, startSections, rewritten, createdKeys>>
    /\ UNCHANGED <<putKeys, prevOutcome, report, upVars, extVars>>

\* line 378, create_section: POST to /sections
CreateSectionOk ==
    /\ pc = "Creating"
    /\ \E section_name \in pending :
          /\ WantsSection(section_name)
          /\ sections' = StorePut(sections, GenKey(nextKey + 1),
                                  SectionData(section_name, now))
          /\ pending' = pending \ {section_name}
    /\ createdKeys' = createdKeys \cup {GenKey(nextKey + 1)}
    /\ nextKey' = nextKey + 1
    /\ issued' = issued + 1
    /\ now' = now + 1
    /\ UNCHANGED <<students, pc, runs, backup, students_data, todo,
                   sections_to_create, migrated_count, failedOp, startStudents,
                   startSections, rewritten>>
    /\ UNCHANGED <<putKeys, prevOutcome, report, upVars, extVars>>

CreateSectionFail ==
    /\ pc = "Creating"
    /\ \E section_name \in pending : WantsSection(section_name)
    /\ issued' = issued + 1
    /\ Exit("post")
    /\ UNCHANGED <<students, sections, nextKey, now, runs, backup, students_data,
                   todo, sections_to_create, pending, migrated_count,
                   startStudents, startSections, rewritten, createdKeys>>
    /\ UNCHANGED <<putKeys, prevOutcome, report, upVars, extVars>>

\* lines 381-382: the counts of the summary
Summary ==
    [migrated |-> migrated_count,
     sections_created |-> Cardinality(sections_to_create)]

\* lines 380-384: the summary is printed and the run returns
Finish ==
    /\ pc = "Creating"
    /\ pending = {}
    /\ pc' = "Done"
    /\ UNCHANGED <<students, sections, nextKey, now, runs, backup, students_data,
                   todo, sections_to_create, pending, migrated_count, issued,
                   failedOp, startStudents, startSections, rewritten, createdKeys>>
    /\ UNCHANGED <<putKeys, prevOutcome, report, upVars, extVars>>

\* The operator runs the command again: a new process, with fresh locals.
NewRun ==
    /\ pc \in {"Done", "Exited"}
    /\ runs < MaxRuns
    /\ runs' = runs + 1
    /\ pc' = "NotStarted"
    /\ backup' = NoBackup
    /\ students_data' = EmptyObj
    /\ todo' = <<>>
    /\ sections_to_create' = {}
    /\ pending' = {}
    /\ migrated_count' = 0
    /\ issued' = 0
    /\ failedOp' = "none"
    /\ startStudents' = students
    /\ startSections' = sections
    /\ rewritten' = {}
    /\ createdKeys' = {}
    /\ putKeys' = {}
    /\ prevOutcome' = pc
    /\ report' = NoReport
    /\ UNCHANGED <<students, sections, nextKey, now, upVars, extVars>>

(***************************************************************************)
(* StutraDB.validate_data_integrity: a scan of /students and /sections.    *)
(***************************************************************************)
\* A scan without the test of line 407 (an empty array passes).
StudentIssues_NoEmptyTest(stu) ==
    { <<k, "missing">> : k \in {x \in DOMAIN stu : ~Has(stu[x], "sections")} }
    \cup
    { <<k, "not an array">> :
        k \in {x \in DOMAIN stu : /\ Has(stu[x], "sections")
                                  /\ ~IsList(stu[x]["sections"])} }

\* lines 401-408: one issue per student at most
StudentIssues(stu) ==
    { <<k, "missing">> : k \in {x \in DOMAIN stu : ~Has(stu[x], "sections")} }
    \cup
    { <<k, "not an array">> :
        k \in {x \in DOMAIN stu : /\ Has(stu[x], "sections")
                                  /\ ~IsList(stu[x]["sections"])} }
    \cup
    { <<k, "empty">> :
        k \in {x \in DOMAIN stu : /\ Has(stu[x], "sections")
                                  /\ IsList(stu[x]["sections"])
                                  /\ stu[x]["sections"].v = <<>>} }

\* lines 411-418: one issue per missing field
SectionIssues(sec) ==
    { <<k, f>> \in (DOMAIN sec) \X {"name", "students", "teachers"} :
        ~Has(sec[k], f) }

\* lines 390-432
ValidationReport(stu, sec) ==
    [ran |-> TRUE,
     student_issues |-> StudentIssues(stu),
     section_issues |-> SectionIssues(sec),
     pass |-> Cardinality(StudentIssues(stu)) + Cardinality(SectionIssues(sec)) = 0]

\* the validate-data command, run once a migration run has ended
ValidateDataIntegrity ==
    /\ pc \in {"Done", "Exited"}
    /\ report' = ValidationReport(students, sections)
    /\ UNCHANGED <<students, sections, nextKey, now, pc, runs, backup,
                   students_data, todo, sections_to_create, pending,
                   migrated_count, issued, failedOp, startStudents, startSections,
                   rewritten, createdKeys, putKeys, prevOutcome, upVars, extVars>>

(***************************************************************************)
(* The store before the first run: records of every shape the code tells   *)
(* apart (legacy, migrated, neither field, a sections value that is no     *)
(* list), and a section collection written earlier.                        *)
(***************************************************************************)
Rec(fields) == fields @@ ("updatedAt" :> 0)

InitRecords ==
    { Rec("section" :> NameA),
      Rec("section" :> NameB),
      Rec("section" :> Default),
      Rec("sections" :> JList(<<NameA>>)),
      Rec("sections" :> JList(<<NameB, NameA>>)),
      Rec("sections" :> JList(<<>>)),
      Rec("sections" :> JStr(NameA)),
      Rec("section" :> NameB @@ "sections" :> JStr(NameA)),
      Rec("section" :> NameA @@ "sections" :> JList(<<NameB>>)),
      Rec(EmptyObj) }

InitStudentStores ==
    UNION { [K -> InitRecords] : K \in SUBSET StudentKeys }

InitSectionStores ==
    { EmptyObj,
      Slug(NameA) :> SectionData(NameA, 0),
      NameA :> ("students" :> <<KeyStr(1)>>) }

InitMigration ==
    /\ pc = "NotStarted"
    /\ runs = 1
    /\ backup = NoBackup
    /\ students_data = EmptyObj
    /\ todo = <<>>
    /\ sections_to_create = {}
    /\ pending = {}
    /\ migrated_count = 0
    /\ issued = 0
    /\ failedOp = "none"
    /\ startStudents = students
    /\ startSections = sections
    /\ rewritten = {}
    /\ createdKeys = {}
    /\ putKeys = {}
    /\ prevOutcome = "none"

InitCsv ==
    /\ csv_reader = "none"
    /\ csv_rows = <<>>
    /\ csv_pos = 0
    /\ csv_students = <<>>
    /\ csv_state = "none"

NoFile == [exists |-> FALSE]
NoAnswer == [given |-> FALSE]

InitBk ==
    /\ bk_pc = "Idle"
    /\ bk_file = NoFile
    /\ bk_confirm = FALSE
    /\ bk_response = NoAnswer
    /\ bk_commands = 0
    /\ bk_outcome = "none"
    /\ bk_tree = <<EmptyObj, EmptyObj>>
    /\ bk_writes = 0
    /\ bk_puts = 0

Clients == {1, 2}

InitIx ==
    /\ teachers = EmptyObj
    /\ ix_pc = [c \in Clients |-> "Idle"]
    /\ ix_kind = [c \in Clients |-> "none"]
    /\ ix_id = [c \in Clients |-> "none"]
    /\ ix_todo = [c \in Clients |-> <<>>]
    /\ ix_list = [c \in Clients |-> <<>>]
    /\ ix_calls = 0
    /\ ix_failed = FALSE
    /\ ix_interleaved = FALSE
    /\ ix_stale = FALSE
    /\ ix_added = {}

\* migrate_all_sections, lines 262-263
InitSum ==
    /\ successful_migrations = 0
    /\ total_students = 0
    /\ written_total = 0

InitAd ==
    /\ ad_commands = 0
    /\ ad_op = "none"
    /\ ad_id = "none"
    /\ ad_args = <<>>
    /\ ad_deletes = 0
    /\ ad_before = <<EmptyObj, EmptyObj, EmptyObj>>

InitExt ==
    /\ InitCsv
    /\ InitBk
    /\ InitIx
    /\ InitSum
    /\ InitAd

InitUpload ==
    /\ upc = "Idle"
    /\ uploads = 0
    /\ adds = 0
    /\ students_in = <<>>
    /\ up_section_name = <<>>
    /\ fetched = "no"
    /\ conflicts = <<>>
    /\ choice = "none"
    /\ students_to_upload = <<>>
    /\ idx = 0
    /\ successful_uploads = 0
    /\ upResult = "none"
    /\ existing_data = EmptyObj
    /\ uploaded = {}
    /\ upIssued = 0

Init ==
    /\ students \in InitStudentStores
    /\ sections \in InitSectionStores
    /\ nextKey = 0
    /\ now = 1
    /\ InitMigration
    /\ report = NoReport
    /\ InitUpload
    /\ InitExt

vars == <<students, sections, nextKey, now, pc, runs, backup, students_data, todo,
          sections_to_create, pending, migrated_count, issued, failedOp,
          startStudents, startSections, rewritten, createdKeys, putKeys,
          prevOutcome, report, upVars, extVars>>

Next ==
    \/ BackupOk
    \/ BackupFail
    \/ FetchStudentsOk
    \/ FetchStudentsFail
    \/ SkipMigrated
    \/ MigrateStudentOk
    \/ MigrateStudentFail
    \/ BeginSections
    \/ SkipSection
    \/ CreateSectionOk
    \/ CreateSectionFail
    \/ Finish
    \/ NewRun
    \/ ValidateDataIntegrity

Spec == Init /\ [][Next]_vars

(***************************************************************************)
(* StutraDB.add_student and the section index (db_manager.py).             *)
(***************************************************************************)

\* _add_student_to_section, lines 151-156: read, test, append, write back
AddStudentToSection(sec, student_id, section_id) ==
    LET section == IF section_id \in DOMAIN sec THEN sec[section_id] ELSE EmptyObj
        students_list == Get(section, "students", <<>>)
    IN  IF student_id \in Range(students_list)
        THEN sec
        ELSE StorePut(sec, section_id,
                      Put(section, "students", Append(students_list, student_id)))

\* lines 143-144
RECURSIVE AddStudentToSections(_, _, _)
AddStudentToSections(sec, student_id, section_ids) ==
    IF section_ids = <<>> THEN sec
    ELSE AddStudentToSections(AddStudentToSection(sec, student_id, Head(section_ids)),
                              student_id, Tail(section_ids))

\* lines 124-134
StudentData(admission_number, sections_arg, stamp) ==
    [admissionNumber |-> admission_number,
     sections |-> JList(IF sections_arg = <<>> THEN <<Default>> ELSE sections_arg),
     createdAt |-> stamp,
     updatedAt |-> stamp]

(***************************************************************************)
(* EnhancedSectionMigrator (migrate_sections_enhanced.py): the candidates  *)
(* read from a CSV file, the conflict check and the upload of one section. *)
(***************************************************************************)
MaxBatch == 2
MaxUploads == 2
MaxAdds == 1

\* Admission numbers as the CSV file holds them.
AdmissionNumbers == { <<"1">>, <<"0", "1">>, <<"2">> }

DigitValue(c) == CASE c = "0" -> 0 [] c = "1" -> 1 [] c = "2" -> 2

\* int(admission_no), line 118
RECURSIVE IntOf(_)
IntOf(digits) ==
    IF digits = <<>> THEN 0
    ELSE 10 * IntOf(SubSeq(digits, 1, Len(digits) - 1))
         + DigitValue(digits[Len(digits)])

\* str(student['id']), line 170, and the {student['id']} of the PUT path
StrOfInt(n) == KeyStr(n)

\* read_csv_file, lines 123-134: the candidate built from one row
Candidate(admission_no) ==
    [id |-> IntOf(admission_no),
     admission_number |-> admission_no,
     sections |-> JList(<<>>)]

\* The batches a file can hold: rows of distinct admission numbers.
Batches ==
    { b \in UNION { [1..n -> {Candidate(a) : a \in AdmissionNumbers}] :
                      n \in 1..MaxBatch } :
        \A i, j \in 1..Len(b) : i # j => b[i] # b[j] }

\* lines 159-164
ExistingIds(data) == DOMAIN data
ExistingAdmissionNumbers(data) ==
    { data[k]["admission_number"] :
        k \in {x \in DOMAIN data : Has(data[x], "admission_number")} }

\* line 173
IsConflict(student, data) ==
    \/ StrOfInt(student["id"]) \in ExistingIds(data)
    \/ student["admission_number"] \in ExistingAdmissionNumbers(data)

\* lines 166-176
ConflictsOf(batch, data) == SelectSeq(batch, LAMBDA st : IsConflict(st, data))
NewStudentsOf(batch, data) == SelectSeq(batch, LAMBDA st : ~IsConflict(st, data))

\* lines 207-213
SectionMeta(name, count) ==
    [name |-> name, grade |-> "XI", student_count |-> count,
     created_at |-> "2025-01-27", updated_at |-> "2025-01-27"]

\* line 228: the record stored for a candidate
UploadedRecord(student, name) == Put(student, "sections", JList(<<name>>))

\* The sections argument of add_student: section ids, as the operator
\* types them (none, a name, the key of a section).
AddSectionArgs == { <<>>, <<NameA>>, <<Slug(NameB)>> }

\* add_student, lines 122-147 (db_manager.py), by another operator command
AddStudent ==
    /\ upc = "Idle"
    /\ adds < MaxAdds
    /\ \E admission_number \in AdmissionNumbers, sections_arg \in AddSectionArgs :
          LET student_id == GenStudentKey(nextKey + 1)
              student_data == StudentData(admission_number, sections_arg, now)
          IN  /\ students' = StorePut(students, student_id, student_data)
              /\ sections' = AddStudentToSections(sections, student_id,
                                                  student_data["sections"].v)
    /\ nextKey' = nextKey + 1
    /\ now' = now + 1
    /\ adds' = adds + 1
    /\ UNCHANGED <<upc, uploads, students_in, up_section_name, fetched, conflicts,
                   choice, students_to_upload, idx, successful_uploads, upResult,
                   existing_data, uploaded, upIssued>>
    /\ UNCHANGED <<migVars, report, extVars>>

\* migrate_all_sections, line 294: the call for one file
BeginUpload ==
    /\ upc = "Idle"
    /\ uploads < MaxUploads
    /\ uploads' = uploads + 1
    /\ \E b \in Batches, name \in RealNames :
          /\ students_in' = b
          /\ up_section_name' = name
    /\ upc' = "Checking"
    /\ UNCHANGED <<fetched, conflicts, choice, students_to_upload, idx,
                   successful_uploads, upResult, existing_data, uploaded, upIssued>>
    /\ UNCHANGED <<students, sections, nextKey, now, adds, migVars, report, extVars>>

\* check_existing_students, lines 151-153 and 192-194: the collection could
\* not be read, and every candidate is returned
CheckUnavailable ==
    /\ upc = "Checking"
    /\ fetched' = "failed"
    /\ students_to_upload' = students_in
    /\ upc' = "Checked"
    /\ UNCHANGED <<students, sections, nextKey, now, uploads, adds, students_in,
                   up_section_name, conflicts, choice, idx, successful_uploads,
                   upResult, existing_data, uploaded, upIssued, migVars, report, extVars>>

\* lines 155-157: there is no student yet
CheckEmpty ==
    /\ upc = "Checking"
    /\ students = EmptyObj
    /\ fetched' = "ok"
    /\ existing_data' = students
    /\ students_to_upload' = students_in
    /\ upc' = "Checked"
    /\ UNCHANGED <<students, sections, nextKey, now, uploads, adds, students_in,
                   up_section_name, conflicts, choice, idx, successful_uploads,
                   upResult, uploaded, upIssued, migVars, report, extVars>>

\* lines 159-178 and 190: no candidate conflicts, the operator is not asked
CheckNoConflict ==
    /\ upc = "Checking"
    /\ students # EmptyObj
    /\ ConflictsOf(students_in, students) = <<>>
    /\ fetched' = "ok"
    /\ existing_data' = students
    /\ students_to_upload' = NewStudentsOf(students_in, students)
    /\ upc' = "Checked"
    /\ UNCHANGED <<students, sections, nextKey, now, uploads, adds, students_in,
                   up_section_name, conflicts, choice, idx, successful_uploads,
                   upResult, uploaded, upIssued, migVars, report, extVars>>

\* lines 178-188: conflicts are reported and the operator does not answer y
CheckDeclined ==
    /\ upc = "Checking"
    /\ students # EmptyObj
    /\ ConflictsOf(students_in, students) # <<>>
    /\ fetched' = "ok"
    /\ existing_data' = students
    /\ conflicts' = ConflictsOf(students_in, students)
    /\ choice' = "n"
    /\ students_to_upload' = <<>>
    /\ upc' = "Checked"
    /\ UNCHANGED <<students, sections, nextKey, now, uploads, adds, students_in,
                   up_section_name, idx, successful_uploads, upResult, uploaded,
                   upIssued, migVars, report, extVars>>

\* lines 178-190: conflicts are reported and the operator answers y
CheckContinue ==
    /\ upc = "Checking"
    /\ students # EmptyObj
    /\ ConflictsOf(students_in, students) # <<>>
    /\ fetched' = "ok"
    /\ existing_data' = students
    /\ conflicts' = ConflictsOf(students_in, students)
    /\ choice' = "y"
    /\ students_to_upload' = NewStudentsOf(students_in, students)
    /\ upc' = "Checked"
    /\ UNCHANGED <<students, sections, nextKey, now, uploads, adds, students_in,
                   up_section_name, idx, successful_uploads, upResult, uploaded,
                   upIssued, migVars, report, extVars>>

\* lines 201-203
NothingToUpload ==
    /\ upc = "Checked"
    /\ students_to_upload = <<>>
    /\ upResult' = "True"
    /\ upc' = "Returned"
    /\ UNCHANGED <<students, sections, nextKey, now, uploads, adds, students_in,
                   up_section_name, fetched, conflicts, choice, students_to_upload,
                   idx, successful_uploads, uploaded, upIssued, existing_data,
                   migVars, report, extVars>>

\* lines 206-215: PUT of the section metadata under the slug of the name
PutSectionOk ==
    /\ upc = "Checked"
    /\ students_to_upload # <<>>
    /\ sections' = StorePut(sections, Slug(up_section_name),
                            SectionMeta(up_section_name, Len(students_to_upload)))
    /\ upIssued' = upIssued + 1
    /\ idx' = 1
    /\ upc' = "Uploading"
    /\ UNCHANGED <<students, nextKey, now, uploads, adds, students_in,
                   up_section_name, fetched, conflicts, choice, students_to_upload,
                   successful_uploads, upResult, uploaded, existing_data, migVars,
                   report, extVars>>

\* lines 216-218 and 245-247: the PUT is refused or raises
PutSectionFail ==
    /\ upc = "Checked"
    /\ students_to_upload # <<>>
    /\ upIssued' = upIssued + 1
    /\ upResult' = "False"
    /\ upc' = "Returned"
    /\ UNCHANGED <<students, sections, nextKey, now, uploads, adds, students_in,
                   up_section_name, fetched, conflicts, choice, students_to_upload,
                   idx, successful_uploads, uploaded, existing_data, migVars,
                   report, extVars>>

\* lines 227-236
PutStudentOk ==
    /\ upc = "Uploading"
    /\ idx <= Len(students_to_upload)
    /\ LET student == UploadedRecord(students_to_upload[idx], up_section_name)
       IN  /\ students' = StorePut(students, StrOfInt(student["id"]), student)
           /\ uploaded' = uploaded \cup {students_to_upload[idx]}
    /\ successful_uploads' = successful_uploads + 1
    /\ upIssued' = upIssued + 1
    /\ idx' = idx + 1
    /\ UNCHANGED <<sections, nextKey, now, upc, uploads, adds, students_in,
                   up_section_name, fetched, conflicts, choice, students_to_upload,
                   upResult, existing_data, migVars, report, extVars>>

\* lines 237-238: the store answers with another status, the loop goes on
PutStudentRefused ==
    /\ upc = "Uploading"
    /\ idx <= Len(students_to_upload)
    /\ upIssued' = upIssued + 1
    /\ idx' = idx + 1
    /\ UNCHANGED <<students, sections, nextKey, now, upc, uploads, adds,
                   students_in, up_section_name, fetched, conflicts, choice,
                   students_to_upload, successful_uploads, upResult, uploaded,
                   existing_data, migVars, report, extVars>>

\* lines 245-247: requests.put raises, the call returns False
PutStudentRaises ==
    /\ upc = "Uploading"
    /\ idx <= Len(students_to_upload)
    /\ upIssued' = upIssued + 1
    /\ upResult' = "False"
    /\ upc' = "Returned"
    /\ UNCHANGED <<students, sections, nextKey, now, uploads, adds, students_in,
                   up_section_name, fetched, conflicts, choice, students_to_upload,
                   idx, successful_uploads, uploaded, existing_data, migVars,
                   report, extVars>>

\* lines 242-243
FinishUpload ==
    /\ upc = "Uploading"
    /\ idx > Len(students_to_upload)
    /\ upResult' = IF successful_uploads > 0 THEN "True" ELSE "False"
    /\ upc' = "Returned"
    /\ UNCHANGED <<students, sections, nextKey, now, uploads, adds, students_in,
                   up_section_name, fetched, conflicts, choice, students_to_upload,
                   idx, successful_uploads, uploaded, upIssued, existing_data,
                   migVars, report, extVars>>

\* migrate_all_sections, lines 294-298: back in the loop over the files, the
\* call is counted when it returned True and its locals are gone
EndUpload ==
    /\ upc = "Returned"
    /\ upc' = "Idle"
    /\ students_in' = <<>>
    /\ up_section_name' = <<>>
    /\ fetched' = "no"
    /\ conflicts' = <<>>
    /\ choice' = "none"
    /\ students_to_upload' = <<>>
    /\ idx' = 0
    /\ successful_uploads' = 0
    /\ upResult' = "none"
    /\ existing_data' = EmptyObj
    /\ uploaded' = {}
    /\ upIssued' = 0
    /\ successful_migrations' =
          IF upResult = "True" THEN successful_migrations + 1
          ELSE successful_migrations
    /\ total_students' =
          IF upResult = "True" THEN total_students + Len(students_in)
          ELSE total_students
    /\ written_total' = written_total + Cardinality(uploaded)
    /\ UNCHANGED <<students, sections, nextKey, now, uploads, adds, migVars, report,
                   csvVars, bkVars, ixVars, adVars>>

InitImport ==
    /\ students = EmptyObj
    /\ sections = EmptyObj
    /\ nextKey = 0
    /\ now = 1
    /\ InitMigration
    /\ report = NoReport
    /\ InitUpload
    /\ InitExt

NextImport ==
    \/ AddStudent
    \/ BeginUpload
    \/ CheckUnavailable
    \/ CheckEmpty
    \/ CheckNoConflict
    \/ CheckDeclined
    \/ CheckContinue
    \/ NothingToUpload
    \/ PutSectionOk
    \/ PutSectionFail
    \/ PutStudentOk
    \/ PutStudentRefused
    \/ PutStudentRaises
    \/ FinishUpload
    \/ EndUpload

SpecImport == InitImport /\ [][NextImport]_vars

(***************************************************************************)
(* read_csv_file of the two section migrators (migrate_sections.py and     *)
(* migrate_sections_enhanced.py): the rows of one file become the          *)
(* candidates handed to upload_section_to_firebase.                        *)
(***************************************************************************)
MaxRows == 3

\* One row of the file after .strip() of its three columns.
CsvRow(serial_no, admission_no, name) ==
    [serial_no |-> serial_no, admission_no |-> admission_no, name |-> name]

CsvRowSet ==
    { CsvRow(<<"1">>, <<"1">>, <<"n">>),
      CsvRow(<<"2">>, <<"2">>, <<"n">>),
      CsvRow(<<"3">>, <<"1", "x">>, <<"n">>),
      CsvRow(<<"4">>, <<>>, <<"n">>),
      CsvRow(<<>>, <<"1">>, <<"n">>),
      CsvRow(<<"6">>, <<"2">>, <<>>) }

CsvFiles == UNION { [1..n -> CsvRowSet] : n \in 1..MaxRows }

\* serial_no and admission_no and name: no column is the empty string
AllPresent(row) ==
    row.serial_no # <<>> /\ row.admission_no # <<>> /\ row.name # <<>>

\* int(admission_no) returns: every character is a digit
IsNumeric(admission_no) ==
    /\ admission_no # <<>>
    /\ \A i \in 1..Len(admission_no) : admission_no[i] \in {"0", "1", "2"}

\* EnhancedSectionMigrator.read_csv_file, lines 112-114
ReadRowMissing ==
    /\ csv_reader = "EnhancedSectionMigrator"
    /\ csv_state = "reading"
    /\ csv_pos <= Len(csv_rows)
    /\ ~AllPresent(csv_rows[csv_pos])
    /\ csv_pos' = csv_pos + 1
    /\ UNCHANGED <<csv_reader, csv_rows, csv_students, csv_state, csvFrame>>

\* lines 117-121: ValueError is caught and the row is skipped
ReadRowInvalid ==
    /\ csv_reader = "EnhancedSectionMigrator"
    /\ csv_state = "reading"
    /\ csv_pos <= Len(csv_rows)
    /\ AllPresent(csv_rows[csv_pos])
    /\ ~IsNumeric(csv_rows[csv_pos].admission_no)
    /\ csv_pos' = csv_pos + 1
    /\ UNCHANGED <<csv_reader, csv_rows, csv_students, csv_state, csvFrame>>

\* lines 123-135
ReadRowAppend ==
    /\ csv_reader = "EnhancedSectionMigrator"
    /\ csv_state = "reading"
    /\ csv_pos <= Len(csv_rows)
    /\ AllPresent(csv_rows[csv_pos])
    /\ IsNumeric(csv_rows[csv_pos].admission_no)
    /\ csv_students' = Append(csv_students, Candidate(csv_rows[csv_pos].admission_no))
    /\ csv_pos' = csv_pos + 1
    /\ UNCHANGED <<csv_reader, csv_rows, csv_state, csvFrame>>

\* line 145: return students
ReadReturn ==
    /\ csv_reader = "EnhancedSectionMigrator"
    /\ csv_state = "reading"
    /\ csv_pos > Len(csv_rows)
    /\ csv_state' = "returned"
    /\ UNCHANGED <<csv_reader, csv_rows, csv_pos, csv_students, csvFrame>>

\* SectionMigrator.read_csv_file (migrate_sections.py), line 72: the if is
\* false and the row adds nothing
BasicRowMissing ==
    /\ csv_reader = "SectionMigrator"
    /\ csv_state = "reading"
    /\ csv_pos <= Len(csv_rows)
    /\ ~AllPresent(csv_rows[csv_pos])
    /\ csv_pos' = csv_pos + 1
    /\ UNCHANGED <<csv_reader, csv_rows, csv_students, csv_state, csvFrame>>

\* lines 73-85
BasicRowAppend ==
    /\ csv_reader = "SectionMigrator"
    /\ csv_state = "reading"
    /\ csv_pos <= Len(csv_rows)
    /\ AllPresent(csv_rows[csv_pos])
    /\ IsNumeric(csv_rows[csv_pos].admission_no)
    /\ csv_students' = Append(csv_students, Candidate(csv_rows[csv_pos].admission_no))
    /\ csv_pos' = csv_pos + 1
    /\ UNCHANGED <<csv_reader, csv_rows, csv_state, csvFrame>>

\* line 74: int(admission_no) raises ValueError, which leaves read_csv_file
\* and is caught by migrate_all_sections (lines 172-173): the file is given
\* up, its students are handed to no upload
BasicRowRaises ==
    /\ csv_reader = "SectionMigrator"
    /\ csv_state = "reading"
    /\ csv_pos <= Len(csv_rows)
    /\ AllPresent(csv_rows[csv_pos])
    /\ ~IsNumeric(csv_rows[csv_pos].admission_no)
    /\ csv_state' = "raised"
    /\ UNCHANGED <<csv_reader, csv_rows, csv_pos, csv_students, csvFrame>>

\* line 87: return students
BasicReturn ==
    /\ csv_reader = "SectionMigrator"
    /\ csv_state = "reading"
    /\ csv_pos > Len(csv_rows)
    /\ csv_state' = "returned"
    /\ UNCHANGED <<csv_reader, csv_rows, csv_pos, csv_students, csvFrame>>

\* migrate_all_sections of either class: the students passed to
\* upload_section_to_firebase, once read_csv_file has ended
HandedToUpload ==
    IF csv_state = "returned" THEN csv_students ELSE <<>>

InitCsvRun ==
    /\ students = EmptyObj
    /\ sections = EmptyObj
    /\ nextKey = 0
    /\ now = 1
    /\ InitMigration
    /\ report = NoReport
    /\ InitUpload
    /\ InitBk
    /\ InitIx
    /\ InitSum
    /\ InitAd
    /\ csv_reader \in {"EnhancedSectionMigrator", "SectionMigrator"}
    /\ csv_rows \in CsvFiles
    /\ csv_pos = 1
    /\ csv_students = <<>>
    /\ csv_state = "reading"

NextCsv ==
    \/ ReadRowMissing
    \/ ReadRowInvalid
    \/ ReadRowAppend
    \/ ReadReturn
    \/ BasicRowMissing
    \/ BasicRowAppend
    \/ BasicRowRaises
    \/ BasicReturn

SpecCsv == InitCsvRun /\ [][NextCsv]_vars

(***************************************************************************)
(* StutraDB.backup_database and StutraDB.restore_database.  The GET of the *)
(* root returns the tree as the store renders it: an empty collection is   *)
(* absent, an empty tree is null, and a collection whose keys are          *)
(* integers, more than half of 0..max of them present, is an array with    *)
(* null at the absent indices.  A PUT stores an array under its indices.   *)
(* json.dump and json.load keep objects, arrays and null as they are.      *)
(***************************************************************************)
MaxCommands == 4

Null == [t |-> "null"]
JArray(s) == [t |-> "array", v |-> s]
JObject(f) == [t |-> "object", v |-> f]

\* The keys of a collection that are integers, and the integer of each.
IntKeys(coll) == {k \in DOMAIN coll : \E i \in 1..9 : KeyStr(i) = k}
IntOfKey(k) == CHOOSE i \in 1..9 : KeyStr(i) = k
MaxIntKey(coll) ==
    CHOOSE m \in {IntOfKey(k) : k \in DOMAIN coll} :
        \A k \in DOMAIN coll : IntOfKey(k) <= m

ArrayLike(coll) ==
    /\ coll # EmptyObj
    /\ IntKeys(coll) = DOMAIN coll
    /\ 2 * Cardinality(DOMAIN coll) > MaxIntKey(coll) + 1

\* response.json() of GET students, line 69
Render(coll) ==
    IF ArrayLike(coll)
    THEN JArray([i \in 1..(MaxIntKey(coll) + 1) |->
                    IF i > 1 /\ KeyStr(i - 1) \in DOMAIN coll
                    THEN coll[KeyStr(i - 1)] ELSE Null])
    ELSE JObject(coll)

\* response.json() of GET '' (the root), line 84
RenderRoot(stu, sec) ==
    IF stu = EmptyObj /\ sec = EmptyObj THEN Null
    ELSE [c \in {x \in {"students"} : stu # EmptyObj}
                \cup {x \in {"sections"} : sec # EmptyObj} |->
             IF c = "students" THEN Render(stu) ELSE JObject(sec)]

\* an array stored under indices counted from 1
Stored_OneBased(json) ==
    IF json.t = "array"
    THEN [k \in {KeyStr(i) : i \in {j \in 1..Len(json.v) : json.v[j] # Null}} |->
             json.v[IntOfKey(k)]]
    ELSE json.v

\* What the store keeps of a PUT value: the elements of an array under
\* their indices, counted from 0, null elements dropped.
Stored(json) ==
    IF json.t = "array"
    THEN [k \in {KeyStr(i - 1) : i \in {j \in 2..Len(json.v) : json.v[j] # Null}} |->
             json.v[IntOfKey(k) + 1]]
    ELSE json.v

\* PUT '' data, line 118: the tree the store holds afterwards
StoredRoot(data) ==
    << IF "students" \in DOMAIN data THEN Stored(data["students"]) ELSE EmptyObj,
       IF "sections" \in DOMAIN data THEN Stored(data["sections"]) ELSE EmptyObj >>

\* response.lower(), line 108
LowerLetter(c) == CASE c = "Y" -> "y" [] c = "E" -> "e" [] c = "S" -> "s"
                    [] c = "N" -> "n" [] c = "O" -> "o" [] OTHER -> LowerChar(c)
Lower(s) == [i \in 1..Len(s) |-> LowerLetter(s[i])]

Yes == <<"y", "e", "s">>

\* What the operator can type at the prompt.
Answers ==
    { Yes, <<"Y", "E", "S">>, <<"Y", "e", "s">>, <<"y">>, <<"n", "o">>,
      <<"N", "O">>, <<>>, <<"y", "e", "s", " ">> }

\* a prompt whose answer is not looked at
Cancels_Never(response) == FALSE

\* line 108: response.lower() != 'yes'
Cancels(response) == Lower(response) # Yes

\* backup_database, lines 79-96: GET of the root, json.dump to the file
BackupDatabase ==
    /\ bk_pc = "Idle"
    /\ bk_commands < MaxCommands
    /\ bk_commands' = bk_commands + 1
    /\ bk_file' = [exists |-> TRUE, data |-> RenderRoot(students, sections)]
    /\ bk_tree' = <<students, sections>>
    /\ bk_writes' = 0
    /\ bk_outcome' = "none"
    /\ UNCHANGED <<students, sections, bk_pc, bk_confirm, bk_response, bk_puts,
                   bkFrame>>

\* lines 84 and 75-77: the GET fails and the process exits, no file written
BackupDatabaseFail ==
    /\ bk_pc = "Idle"
    /\ bk_commands < MaxCommands
    /\ bk_commands' = bk_commands + 1
    /\ bk_outcome' = "none"
    /\ UNCHANGED <<students, sections, bk_pc, bk_file, bk_confirm, bk_response,
                   bk_tree, bk_writes, bk_puts, bkFrame>>

\* remove_student, lines 462-475, by this or another operator: the record
\* exists and is deleted
RemoveStudent ==
    /\ bk_commands < MaxCommands
    /\ bk_commands' = bk_commands + 1
    /\ \E student_id \in DOMAIN students :
          students' = [k \in DOMAIN students \ {student_id} |-> students[k]]
    /\ bk_writes' = bk_writes + 1
    /\ UNCHANGED <<sections, bk_pc, bk_file, bk_confirm, bk_response, bk_outcome,
                   bk_tree, bk_puts, bkFrame>>

\* restore_database, lines 102-104: there is no file of that name
RestoreFileMissing ==
    /\ bk_pc = "Idle"
    /\ bk_commands < MaxCommands
    /\ bk_commands' = bk_commands + 1
    /\ \E confirm \in BOOLEAN, named \in BOOLEAN :
          /\ ~(named /\ bk_file.exists)
          /\ bk_confirm' = confirm
    /\ bk_response' = NoAnswer
    /\ bk_puts' = 0
    /\ bk_outcome' = "missing"
    /\ UNCHANGED <<students, sections, bk_pc, bk_file, bk_tree, bk_writes,
                   bkFrame>>

\* lines 102 and 106: the file exists and confirm is True
RestoreConfirmed ==
    /\ bk_pc = "Idle"
    /\ bk_commands < MaxCommands
    /\ bk_commands' = bk_commands + 1
    /\ bk_file.exists
    /\ bk_confirm' = TRUE
    /\ bk_response' = NoAnswer
    /\ bk_puts' = 0
    /\ bk_outcome' = "none"
    /\ bk_pc' = "Loading"
    /\ UNCHANGED <<students, sections, bk_file, bk_tree, bk_writes, bkFrame>>

\* lines 106-107: the file exists, confirm is False, the operator is asked
RestorePrompt ==
    /\ bk_pc = "Idle"
    /\ bk_commands < MaxCommands
    /\ bk_commands' = bk_commands + 1
    /\ bk_file.exists
    /\ bk_confirm' = FALSE
    /\ bk_response' = NoAnswer
    /\ bk_puts' = 0
    /\ bk_outcome' = "none"
    /\ bk_pc' = "Prompting"
    /\ UNCHANGED <<students, sections, bk_file, bk_tree, bk_writes, bkFrame>>

\* lines 107-110: the answer cancels the restore
RestoreCancelled ==
    /\ bk_pc = "Prompting"
    /\ \E response \in Answers :
          /\ Cancels(response)
          /\ bk_response' = [given |-> TRUE, text |-> response]
    /\ bk_outcome' = "cancelled"
    /\ bk_pc' = "Idle"
    /\ UNCHANGED <<students, sections, bk_file, bk_confirm, bk_commands, bk_tree,
                   bk_writes, bk_puts, bkFrame>>

\* lines 107-108: the answer lets the restore go on
RestoreAccepted ==
    /\ bk_pc = "Prompting"
    /\ \E response \in Answers :
          /\ ~Cancels(response)
          /\ bk_response' = [given |-> TRUE, text |-> response]
    /\ bk_pc' = "Loading"
    /\ UNCHANGED <<students, sections, bk_file, bk_confirm, bk_commands,
                   bk_outcome, bk_tree, bk_writes, bk_puts, bkFrame>>

\* lines 114-120: json.load of the file and the PUT of the root
RestorePutOk ==
    /\ bk_pc = "Loading"
    /\ students' = StoredRoot(bk_file.data)[1]
    /\ sections' = StoredRoot(bk_file.data)[2]
    /\ bk_puts' = bk_puts + 1
    /\ bk_outcome' = "restored"
    /\ bk_pc' = "Idle"
    /\ UNCHANGED <<bk_file, bk_confirm, bk_response, bk_commands, bk_tree,
                   bk_writes, bkFrame>>

\* lines 118 and 75-77: the PUT fails and the process exits
RestorePutFail ==
    /\ bk_pc = "Loading"
    /\ bk_puts' = bk_puts + 1
    /\ bk_outcome' = "failed"
    /\ bk_pc' = "Idle"
    /\ UNCHANGED <<students, sections, bk_file, bk_confirm, bk_response,
                   bk_commands, bk_tree, bk_writes, bkFrame>>

\* The stores the commands start from: integer keys (arrays and objects on
\* the wire), generated keys, the empty tree.
BkRecords == { Rec("sections" :> JList(<<NameA>>)), Rec("section" :> NameB) }
BkKeys == { KeyStr(1), KeyStr(2), GenStudentKey(1) }
BkStudentStores == UNION { [K -> BkRecords] : K \in SUBSET BkKeys }

InitBackup ==
    /\ students \in BkStudentStores
    /\ sections \in InitSectionStores
    /\ nextKey = 0
    /\ now = 1
    /\ InitMigration
    /\ report = NoReport
    /\ InitUpload
    /\ InitCsv
    /\ InitBk
    /\ InitIx
    /\ InitSum
    /\ InitAd

NextBackup ==
    \/ BackupDatabase
    \/ BackupDatabaseFail
    \/ RemoveStudent
    \/ RestoreFileMissing
    \/ RestoreConfirmed
    \/ RestorePrompt
    \/ RestoreCancelled
    \/ RestoreAccepted
    \/ RestorePutOk
    \/ RestorePutFail

SpecBackup == InitBackup /\ [][NextBackup]_vars

(***************************************************************************)
(* StutraDB.add_student and StutraDB.add_teacher, request by request, run  *)
(* by two clients of the same store: the POST of the entity, then for each *)
(* section the GET of the section record and the PUT of the updated list   *)
(* at sections/<id>/students (resp. teachers).                             *)
(***************************************************************************)
MaxCalls == 2

Kinds == {"student", "teacher"}
\* The child of the section record a call of that kind updates.
FieldOf(kind) == IF kind = "student" THEN "students" ELSE "teachers"

\* The sections argument of a call: none, one section named twice, two
\* sections.
SectionArgs == { <<>>, <<NameA, NameA>>, <<NameA, NameB>> }

\* add_teacher, lines 160-168
TeacherData(assigned_sections, stamp) ==
    [assignedSections |-> JList(assigned_sections),
     createdAt |-> stamp,
     updatedAt |-> stamp]

\* GET sections/<section_id> or {}, then section.get(field, []):
\* lines 151-152 and 185-186
ListRead(sec, section_id, field) ==
    Get(IF section_id \in DOMAIN sec THEN sec[section_id] ELSE EmptyObj, field, <<>>)

\* a PUT of the list at sections/<section_id>, replacing the record
PutChild_WholeRecord(sec, section_id, field, value) ==
    StorePut(sec, section_id, field :> value)

\* PUT sections/<section_id>/<field>: the child is replaced, the other
\* children of the section record stay
PutChild(sec, section_id, field, value) ==
    StorePut(sec, section_id,
             Put(IF section_id \in DOMAIN sec THEN sec[section_id] ELSE EmptyObj,
                 field, value))

\* The position of a client after its loop moved past one section.
AfterSection(rest) == IF rest = <<>> THEN "Idle" ELSE "Reading"

\* add_student, lines 122-140: the record is POSTed under a generated key
AddStudentPost(c) ==
    /\ ix_pc[c] = "Idle"
    /\ ix_calls < MaxCalls
    /\ ix_calls' = ix_calls + 1
    /\ \E sections_arg \in SectionArgs :
          LET student_id == GenStudentKey(nextKey + 1)
              student_data == StudentData(<<"1">>, sections_arg, now)
          IN  /\ students' = StorePut(students, student_id, student_data)
              /\ ix_id' = [ix_id EXCEPT ![c] = student_id]
              /\ ix_todo' = [ix_todo EXCEPT ![c] = student_data["sections"].v]
    /\ ix_kind' = [ix_kind EXCEPT ![c] = "student"]
    /\ ix_pc' = [ix_pc EXCEPT ![c] = "Reading"]
    /\ ix_interleaved' = (ix_interleaved \/ \E o \in Clients \ {c} : ix_pc[o] # "Idle")
    /\ nextKey' = nextKey + 1
    /\ now' = now + 1
    /\ UNCHANGED <<sections, teachers, ix_list, ix_failed, ix_stale, ix_added,
                   ixFrame>>

\* add_teacher, lines 158-174
AddTeacherPost(c) ==
    /\ ix_pc[c] = "Idle"
    /\ ix_calls < MaxCalls
    /\ ix_calls' = ix_calls + 1
    /\ \E assigned_sections \in SectionArgs :
          LET teacher_id == GenStudentKey(nextKey + 1)
          IN  /\ teachers' = StorePut(teachers, teacher_id,
                                      TeacherData(assigned_sections, now))
              /\ ix_id' = [ix_id EXCEPT ![c] = teacher_id]
              /\ ix_todo' = [ix_todo EXCEPT ![c] = assigned_sections]
              /\ ix_pc' = [ix_pc EXCEPT ![c] = AfterSection(assigned_sections)]
    /\ ix_kind' = [ix_kind EXCEPT ![c] = "teacher"]
    /\ ix_interleaved' = (ix_interleaved \/ \E o \in Clients \ {c} : ix_pc[o] # "Idle")
    /\ nextKey' = nextKey + 1
    /\ now' = now + 1
    /\ UNCHANGED <<students, sections, ix_list, ix_failed, ix_stale, ix_added,
                   ixFrame>>

\* an append without the membership test
ReadSectionAbsent_NoTest(c) ==
    /\ ix_pc[c] = "Reading"
    /\ LET list == ListRead(sections, Head(ix_todo[c]), FieldOf(ix_kind[c]))
       IN  ix_list' = [ix_list EXCEPT ![c] = Append(list, ix_id[c])]
    /\ ix_pc' = [ix_pc EXCEPT ![c] = "Writing"]
    /\ UNCHANGED <<students, sections, nextKey, now, teachers, ix_kind, ix_id,
                   ix_todo, ix_calls, ix_failed, ix_interleaved, ix_stale,
                   ix_added, ixFrame>>

\* _add_student_to_section / _add_teacher_to_section, lines 151-155 and
\* 185-189: the section is read, the id is not in the list and is appended
ReadSectionAbsent(c) ==
    /\ ix_pc[c] = "Reading"
    /\ LET list == ListRead(sections, Head(ix_todo[c]), FieldOf(ix_kind[c]))
       IN  /\ ix_id[c] \notin Range(list)
           /\ ix_list' = [ix_list EXCEPT ![c] = Append(list, ix_id[c])]
    /\ ix_pc' = [ix_pc EXCEPT ![c] = "Writing"]
    /\ UNCHANGED <<students, sections, nextKey, now, teachers, ix_kind, ix_id,
                   ix_todo, ix_calls, ix_failed, ix_interleaved, ix_stale,
                   ix_added, ixFrame>>

\* lines 151-154 and 185-188: the id is in the list already, nothing is
\* written and the loop goes to the next section
ReadSectionPresent(c) ==
    /\ ix_pc[c] = "Reading"
    /\ ix_id[c] \in Range(ListRead(sections, Head(ix_todo[c]), FieldOf(ix_kind[c])))
    /\ ix_added' = ix_added \cup {<<ix_kind[c], ix_id[c], Head(ix_todo[c])>>}
    /\ ix_todo' = [ix_todo EXCEPT ![c] = Tail(ix_todo[c])]
    /\ ix_pc' = [ix_pc EXCEPT ![c] = AfterSection(Tail(ix_todo[c]))]
    /\ UNCHANGED <<students, sections, nextKey, now, teachers, ix_kind, ix_id,
                   ix_list, ix_calls, ix_failed, ix_interleaved, ix_stale,
                   ixFrame>>

\* a write that appends to the list the store holds at the time of the write
WriteList_Merge(c) ==
    /\ ix_pc[c] = "Writing"
    /\ LET section_id == Head(ix_todo[c])
           field == FieldOf(ix_kind[c])
           current == ListRead(sections, section_id, field)
       IN  /\ sections' = PutChild(sections, section_id, field,
                                   Append(current, ix_id[c]))
           /\ ix_stale' = (ix_stale \/ Append(current, ix_id[c]) # ix_list[c])
           /\ ix_added' = ix_added \cup {<<ix_kind[c], ix_id[c], section_id>>}
    /\ ix_todo' = [ix_todo EXCEPT ![c] = Tail(ix_todo[c])]
    /\ ix_pc' = [ix_pc EXCEPT ![c] = AfterSection(Tail(ix_todo[c]))]
    /\ UNCHANGED <<students, nextKey, now, teachers, ix_kind, ix_id, ix_list,
                   ix_calls, ix_failed, ix_interleaved, ixFrame>>

\* lines 156 and 190: the PUT of the list the client holds
WriteList(c) ==
    /\ ix_pc[c] = "Writing"
    /\ LET section_id == Head(ix_todo[c])
           field == FieldOf(ix_kind[c])
           current == ListRead(sections, section_id, field)
       IN  /\ sections' = PutChild(sections, section_id, field, ix_list[c])
           /\ ix_stale' = (ix_stale \/ Append(current, ix_id[c]) # ix_list[c])
           /\ ix_added' = ix_added \cup {<<ix_kind[c], ix_id[c], section_id>>}
    /\ ix_todo' = [ix_todo EXCEPT ![c] = Tail(ix_todo[c])]
    /\ ix_pc' = [ix_pc EXCEPT ![c] = AfterSection(Tail(ix_todo[c]))]
    /\ UNCHANGED <<students, nextKey, now, teachers, ix_kind, ix_id, ix_list,
                   ix_calls, ix_failed, ix_interleaved, ixFrame>>

\* _make_request, lines 75-77: the GET or the PUT fails and the process of
\* the client exits, the rest of its call undone
RequestFails(c) ==
    /\ ix_pc[c] \in {"Reading", "Writing"}
    /\ ix_failed' = TRUE
    /\ ix_todo' = [ix_todo EXCEPT ![c] = <<>>]
    /\ ix_pc' = [ix_pc EXCEPT ![c] = "Idle"]
    /\ UNCHANGED <<students, sections, nextKey, now, teachers, ix_kind, ix_id,
                   ix_list, ix_calls, ix_interleaved, ix_stale, ix_added,
                   ixFrame>>

\* The sections the calls find: none, or a section with a student already
\* in its list, or a section record that has no list yet.
IxSectionStores ==
    { EmptyObj,
      NameA :> [name |-> NameA, students |-> <<KeyStr(1)>>, teachers |-> <<>>],
      NameA :> [name |-> NameA] }

InitIndex ==
    /\ students = EmptyObj
    /\ sections \in IxSectionStores
    /\ nextKey = 0
    /\ now = 1
    /\ InitMigration
    /\ report = NoReport
    /\ InitUpload
    /\ InitCsv
    /\ InitBk
    /\ InitIx
    /\ InitSum
    /\ InitAd

NextIndex ==
    \E c \in Clients :
        \/ AddStudentPost(c)
        \/ AddTeacherPost(c)
        \/ ReadSectionAbsent(c)
        \/ ReadSectionPresent(c)
        \/ WriteList(c)
        \/ RequestFails(c)

SpecIndex == InitIndex /\ [][NextIndex]_vars

(***************************************************************************)
(* The commands of one operator, each run to its end before the next:      *)
(* add_student, add_teacher, remove_student, remove_teacher and            *)
(* import_students_csv of db_manager.py, and the edit actions of the TUI   *)
(* (stutra_tui.py).  No request fails.                                     *)
(***************************************************************************)
MaxOps == 3

\* _add_student_to_section / _add_teacher_to_section, lines 149-156 and
\* 183-190, for the list named field
AddToSection(sec, id, section_id, field) ==
    LET list == ListRead(sec, section_id, field)
    IN  IF id \in Range(list) THEN sec
        ELSE PutChild(sec, section_id, field, Append(list, id))

\* for section_id in sections: lines 143-144 and 177-178
RECURSIVE AddToSections(_, _, _, _)
AddToSections(sec, id, section_ids, field) ==
    IF section_ids = <<>> THEN sec
    ELSE AddToSections(AddToSection(sec, id, Head(section_ids), field),
                       id, Tail(section_ids), field)

\* add_student, lines 122-147
AdminAddStudent ==
    /\ ad_commands < MaxOps
    /\ \E sections_arg \in SectionArgs :
          LET student_id == GenStudentKey(nextKey + 1)
              student_data == StudentData(<<"1">>, sections_arg, now)
          IN  /\ students' = StorePut(students, student_id, student_data)
              /\ sections' = AddToSections(sections, student_id,
                                           student_data["sections"].v, "students")
              /\ ad_id' = student_id
              /\ ad_args' = sections_arg
    /\ nextKey' = nextKey + 1
    /\ now' = now + 1
    /\ ad_op' = "add_student"
    /\ ad_deletes' = 0
    /\ ad_before' = <<students, sections, teachers>>
    /\ ad_commands' = ad_commands + 1
    /\ UNCHANGED <<teachers, adFrame>>

\* add_teacher, lines 158-181
AdminAddTeacher ==
    /\ ad_commands < MaxOps
    /\ \E assigned_sections \in SectionArgs :
          LET teacher_id == GenStudentKey(nextKey + 1)
          IN  /\ teachers' = StorePut(teachers, teacher_id,
                                      TeacherData(assigned_sections, now))
              /\ sections' = AddToSections(sections, teacher_id,
                                           assigned_sections, "teachers")
              /\ ad_id' = teacher_id
              /\ ad_args' = assigned_sections
    /\ nextKey' = nextKey + 1
    /\ now' = now + 1
    /\ ad_op' = "add_teacher"
    /\ ad_deletes' = 0
    /\ ad_before' = <<students, sections, teachers>>
    /\ ad_commands' = ad_commands + 1
    /\ UNCHANGED <<students, adFrame>>

\* a removal that also takes the id out of the students lists
RemoveStudentFound_Cascade ==
    /\ ad_commands < MaxOps
    /\ \E student_id \in DOMAIN students :
          /\ students' = [k \in DOMAIN students \ {student_id} |-> students[k]]
          /\ sections' = [x \in DOMAIN sections |->
                            IF "students" \in DOMAIN sections[x]
                            THEN Put(sections[x], "students",
                                     SelectSeq(sections[x]["students"],
                                               LAMBDA e : e # student_id))
                            ELSE sections[x]]
          /\ ad_id' = student_id
    /\ ad_op' = "remove_student"
    /\ ad_args' = <<>>
    /\ ad_deletes' = 1
    /\ ad_before' = <<students, sections, teachers>>
    /\ ad_commands' = ad_commands + 1
    /\ UNCHANGED <<teachers, nextKey, now, adFrame>>

\* remove_student, lines 462-475: the record exists, DELETE students/<id>
RemoveStudentFound ==
    /\ ad_commands < MaxOps
    /\ \E student_id \in DOMAIN students :
          /\ students' = [k \in DOMAIN students \ {student_id} |-> students[k]]
          /\ ad_id' = student_id
    /\ ad_op' = "remove_student"
    /\ ad_args' = <<>>
    /\ ad_deletes' = 1
    /\ ad_before' = <<students, sections, teachers>>
    /\ ad_commands' = ad_commands + 1
    /\ UNCHANGED <<sections, teachers, nextKey, now, adFrame>>

\* lines 467-470: the GET returns nothing, the command returns
RemoveStudentNotFound ==
    /\ ad_commands < MaxOps
    /\ \E student_id \in {GenStudentKey(1), GenStudentKey(2)} \ DOMAIN students :
          ad_id' = student_id
    /\ ad_op' = "remove_student"
    /\ ad_args' = <<>>
    /\ ad_deletes' = 0
    /\ ad_before' = <<students, sections, teachers>>
    /\ ad_commands' = ad_commands + 1
    /\ UNCHANGED <<students, sections, teachers, nextKey, now, adFrame>>

\* remove_teacher, lines 477-490: the record exists, DELETE teachers/<id>
RemoveTeacherFound ==
    /\ ad_commands < MaxOps
    /\ \E teacher_id \in DOMAIN teachers :
          /\ teachers' = [k \in DOMAIN teachers \ {teacher_id} |-> teachers[k]]
          /\ ad_id' = teacher_id
    /\ ad_op' = "remove_teacher"
    /\ ad_args' = <<>>
    /\ ad_deletes' = 1
    /\ ad_before' = <<students, sections, teachers>>
    /\ ad_commands' = ad_commands + 1
    /\ UNCHANGED <<students, sections, nextKey, now, adFrame>>

\* lines 482-485
RemoveTeacherNotFound ==
    /\ ad_commands < MaxOps
    /\ \E teacher_id \in {GenStudentKey(1), GenStudentKey(2)} \ DOMAIN teachers :
          ad_id' = teacher_id
    /\ ad_op' = "remove_teacher"
    /\ ad_args' = <<>>
    /\ ad_deletes' = 0
    /\ ad_before' = <<students, sections, teachers>>
    /\ ad_commands' = ad_commands + 1
    /\ UNCHANGED <<students, sections, teachers, nextKey, now, adFrame>>

\* import_students_csv, lines 506-518, for one complete row: add_student is
\* called with the string of the section column as its sections, which is
\* stored as it is (lines 124-130) and iterated character by character by
\* the loop of lines 143-144
ImportStudentsCsvRow ==
    /\ ad_commands < MaxOps
    /\ \E section \in RealNames :
          LET student_id == GenStudentKey(nextKey + 1)
              student_data == [admissionNumber |-> <<"1">>,
                               sections |-> JStr(section),
                               createdAt |-> now,
                               updatedAt |-> now]
          IN  /\ students' = StorePut(students, student_id, student_data)
              /\ sections' = AddToSections(sections, student_id,
                                           [i \in 1..Len(section) |-> <<section[i]>>],
                                           "students")
              /\ ad_id' = student_id
              /\ ad_args' = <<section>>
    /\ nextKey' = nextKey + 1
    /\ now' = now + 1
    /\ ad_op' = "import_students_csv"
    /\ ad_deletes' = 0
    /\ ad_before' = <<students, sections, teachers>>
    /\ ad_commands' = ad_commands + 1
    /\ UNCHANGED <<teachers, adFrame>>

\* StudentsTab.edit_student (stutra_tui.py), lines 391-419: the form gives
\* the new sections, and the record is replaced by updated_data
EditStudent ==
    /\ ad_commands < MaxOps
    /\ \E student_id \in DOMAIN students, new_sections \in {<<NameA>>, <<NameB>>} :
          \* line 394: the cursor is on a row of the table other than row 0
          /\ student_id # Head(SortedKeys(DOMAIN students))
          /\ students' = StorePut(students, student_id,
                            [admissionNumber |->
                                 Get(students[student_id], "admissionNumber", <<"1">>),
                             sections |-> JList(new_sections),
                             updatedAt |-> now])
          /\ ad_id' = student_id
          /\ ad_args' = new_sections
    /\ now' = now + 1
    /\ ad_op' = "edit_student"
    /\ ad_deletes' = 0
    /\ ad_before' = <<students, sections, teachers>>
    /\ ad_commands' = ad_commands + 1
    /\ UNCHANGED <<sections, teachers, nextKey, adFrame>>

\* TeachersTab.edit_teacher (stutra_tui.py), lines 555-582
EditTeacher ==
    /\ ad_commands < MaxOps
    /\ \E teacher_id \in DOMAIN teachers, new_sections \in {<<NameA>>, <<NameB>>} :
          \* line 558: the cursor is on a row of the table other than row 0
          /\ teacher_id # Head(SortedKeys(DOMAIN teachers))
          /\ teachers' = StorePut(teachers, teacher_id,
                            [assignedSections |-> JList(new_sections),
                             updatedAt |-> now])
          /\ ad_id' = teacher_id
          /\ ad_args' = new_sections
    /\ now' = now + 1
    /\ ad_op' = "edit_teacher"
    /\ ad_deletes' = 0
    /\ ad_before' = <<students, sections, teachers>>
    /\ ad_commands' = ad_commands + 1
    /\ UNCHANGED <<students, sections, nextKey, adFrame>>

\* The store the operator starts with: no student or teacher, and no
\* section or a section record created by create_section.
InitAdmin ==
    /\ students = EmptyObj
    /\ sections \in {EmptyObj, NameA :> SectionData(NameA, 0)}
    /\ nextKey = 0
    /\ now = 1
    /\ InitMigration
    /\ report = NoReport
    /\ InitUpload
    /\ InitCsv
    /\ InitBk
    /\ InitIx
    /\ InitSum
    /\ InitAd

NextAdmin ==
    \/ AdminAddStudent
    \/ AdminAddTeacher
    \/ RemoveStudentFound
    \/ RemoveStudentNotFound
    \/ RemoveTeacherFound
    \/ RemoveTeacherNotFound
    \/ ImportStudentsCsvRow
    \/ EditStudent
    \/ EditTeacher

SpecAdmin == InitAdmin /\ [][NextAdmin]_vars

(***************************************************************************)
(* Record shapes, as the specification names them.                         *)
(***************************************************************************)
HasListSections(r) == "sections" \in DOMAIN r /\ r["sections"].t = "list"
LegacyShape(r) == "section" \in DOMAIN r /\ ~HasListSections(r)
MalformedShape(r) ==
    \/ "section" \notin DOMAIN r /\ "sections" \notin DOMAIN r
    \/ "sections" \in DOMAIN r /\ r["sections"].t # "list"

\* C1: every student record that was legacy (a section field with value A,
\* no list-valued sections) when the run started is stored, once the run has
\* rewritten it and in any case when the run is Done, with sections = [A]
\* and without a section field.
C1_LegacyMigrated ==
    \A k \in DOMAIN startStudents :
        (LegacyShape(startStudents[k]) /\ (pc = "Done" \/ k \in rewritten)) =>
            /\ k \in DOMAIN students
            /\ "sections" \in DOMAIN students[k]
            /\ students[k]["sections"] = JList(<<startStudents[k]["section"]>>)
            /\ "section" \notin DOMAIN students[k]

C1_Witness ==
    /\ pc = "Done"
    /\ \E k \in DOMAIN startStudents :
          /\ LegacyShape(startStudents[k])
          /\ startStudents[k]["section"] = NameA
          /\ k \in rewritten

\* C2: a run issues no PUT for a student record that had a list-valued
\* sections when the run started, and every such record is stored unchanged;
\* in particular in a second run on the store a completed first run left.
C2_MigratedUntouched ==
    \A k \in DOMAIN startStudents :
        HasListSections(startStudents[k]) =>
            /\ k \notin putKeys
            /\ k \in DOMAIN students
            /\ students[k] = startStudents[k]

C2_Witness ==
    /\ runs = 2
    /\ prevOutcome = "Done"
    /\ pc = "Done"
    /\ \E k \in DOMAIN students :
          HasListSections(students[k]) /\ students[k]["updatedAt"] > 0

\* The phase of the specification's state machine a position belongs to:
\* the student loop and the creation of the sections are both Migrating.
Phase(p) == IF p = "Creating" THEN "Migrating" ELSE p

C3_BackupState ==
    /\ issued > 0 =>
          /\ backup.made
          /\ backup.students = startStudents
          /\ backup.sections = startSections
    /\ ~backup.made => students = startStudents /\ sections = startSections
    /\ failedOp = "backup" => issued = 0 /\ pc = "Exited"

C3_PhaseStep ==
    \/ Phase(pc') = Phase(pc)
    \/ <<Phase(pc), Phase(pc')>> \in { <<"NotStarted", "BackedUp">>,
                                       <<"BackedUp", "Migrating">>,
                                       <<"Migrating", "Done">> }
    \/ pc' = "Exited"
    \/ pc \in {"Done", "Exited"} /\ pc' = "NotStarted" /\ runs' = runs + 1

\* C3: the backup of the whole tree is taken before the run issues its first
\* PUT or POST, a run whose backup failed issues none, and the phases follow
\* NotStarted, BackedUp, Migrating, Done (a run may end early, and the next
\* run starts at NotStarted).
C3_BackupBeforeWrite == [](C3_BackupState) /\ [][C3_PhaseStep]_vars

C3_Witness == pc = "Done" /\ issued > 0 /\ backup.made

\* C4: a failing PUT of one legacy student does not end the run short of
\* Done (the record is skipped and the run goes on).
C4_FailureSkipped == failedOp = "put" => pc # "Exited"

\* C5: the run creates a section record for a collected name only if no
\* record exists under the slug of that name, so none is added for a name
\* that already had one.
C5_CreateOnlyIfAbsent ==
    \A k \in createdKeys :
        /\ Slug(sections[k]["name"]) \notin DOMAIN startSections
        /\ \A k2 \in createdKeys :
              sections[k2]["name"] = sections[k]["name"] => k2 = k

\* Some student has X in sections while section X is absent or its students
\* list lacks the student's key.
RefIntegrityBroken(stu, sec) ==
    \E k \in DOMAIN stu :
        /\ HasListSections(stu[k])
        /\ \E i \in 1..Len(stu[k]["sections"].v) :
              LET X == stu[k]["sections"].v[i]
              IN  ~ /\ X \in DOMAIN sec
                    /\ "students" \in DOMAIN sec[X]
                    /\ \E j \in 1..Len(sec[X]["students"]) :
                          sec[X]["students"][j] = k

\* C6: when some student has X in sections while section X is absent or its
\* students list lacks the student's key, the validator reports an issue
\* and fails.
C6_ValidatorReportsBrokenIndex ==
    (report.ran /\ RefIntegrityBroken(students, sections)) => ~report.pass

\* The record under key k is a section record for X: it is keyed X or the
\* slug of X, or named X.
SectionFor(sec, k, X) ==
    \/ k = X
    \/ k = Slug(X)
    \/ "name" \in DOMAIN sec[k] /\ sec[k]["name"] = X

\* C7: after a run that reached Done (no request failed), every legacy
\* student the run rewrote is in the students list of a section record for
\* its legacy value X.
C7_MigratedIndexed ==
    pc = "Done" =>
        \A s \in {x \in rewritten : /\ LegacyShape(startStudents[x])
                                    /\ startStudents[x]["section"] \in RealNames} :
            \E k \in DOMAIN sections :
                /\ SectionFor(sections, k, students[s]["sections"].v[1])
                /\ "students" \in DOMAIN sections[k]
                /\ \E j \in 1..Len(sections[k]["students"]) :
                      sections[k]["students"][j] = s

\* C8: a record with neither section nor sections, or whose sections is not
\* a list, is left as it was stored.
C8_MalformedUntouched ==
    \A k \in DOMAIN startStudents :
        MalformedShape(startStudents[k]) =>
            k \in DOMAIN students /\ students[k] = startStudents[k]

(***************************************************************************)
(* A collision, as the specification defines a conflict: the id or the     *)
(* admission number of the candidate is already in the store, whichever    *)
(* field the writer of the record stored the admission number in.          *)
(***************************************************************************)
AdmissionNumbersIn(r) ==
    { r[f] : f \in DOMAIN r \cap {"admission_number", "admissionNumber"} }

Collides(candidate, data) ==
    \/ StrOfInt(candidate["id"]) \in DOMAIN data
    \/ \E k \in DOMAIN data :
          candidate["admission_number"] \in AdmissionNumbersIn(data[k])

Colliding(batch, data) == {i \in 1..Len(batch) : Collides(batch[i], data)}

\* C9: a call that read the collection and whose batch has k > 0 colliding
\* candidates: when the operator did not opt in, it issues no write and k
\* conflicts are reported; when the operator opted in, no colliding candidate
\* is stored and, every PUT having succeeded, exactly the others are.
C9_ConflictPolicy ==
    (upc = "Returned" /\ fetched = "ok"
       /\ Colliding(students_in, existing_data) # {}) =>
        /\ choice # "y" =>
              /\ upIssued = 0
              /\ Len(conflicts) = Cardinality(Colliding(students_in, existing_data))
        /\ choice = "y" =>
              /\ \A i \in Colliding(students_in, existing_data) :
                    students_in[i] \notin uploaded
              /\ (upResult = "True"
                    /\ successful_uploads = Len(students_to_upload)) =>
                    uploaded = { students_in[i] :
                                   i \in (1..Len(students_in))
                                         \ Colliding(students_in, existing_data) }

\* C10: after a check that read the collection, a candidate is in conflict
\* exactly when it collides with a stored record, whoever wrote that record.
C10_ConflictIffCollision ==
    (upc \in {"Checked", "Uploading", "Returned"} /\ fetched = "ok") =>
        \A i \in 1..Len(students_in) :
            (\E j \in 1..Len(conflicts) : conflicts[j] = students_in[i])
                <=> Collides(students_in[i], existing_data)

\* C11: a candidate is written to the store only after a conflict check that
\* read the existing collection classified it new; when the collection could
\* not be read, no candidate of the batch is written.
C11_WrittenOnlyIfClassifiedNew ==
    \A c \in uploaded :
        /\ fetched = "ok"
        /\ ~IsConflict(c, existing_data)

\* C17: once the loop over the records has started, a failing PUT for one
\* record does not end it: when the call returns, a PUT has been attempted
\* for every record of the batch (one more than the PUT of the section).
C17_LoopContinuesAfterFailure ==
    (upc = "Returned" /\ idx >= 1) =>
        upIssued = 1 + Len(students_to_upload)

\* A row whose three columns are present and whose admission number is a
\* number.
WellFormedRow(row) == AllPresent(row) /\ IsNumeric(row.admission_no)
NonNumericRow(row) == AllPresent(row) /\ ~IsNumeric(row.admission_no)

\* C12: when the file has a row with a non-numeric admission number, once the
\* file has been read no candidate of such a row is in the set handed to the
\* upload, and every well-formed row after it is.
C12_NonNumericRowSkipped ==
    csv_state \in {"returned", "raised"} =>
        \A i \in 1..Len(csv_rows) :
            NonNumericRow(csv_rows[i]) =>
                /\ \A j \in 1..Len(HandedToUpload) :
                      HandedToUpload[j]["admission_number"] # csv_rows[i].admission_no
                /\ \A i2 \in (i + 1)..Len(csv_rows) :
                      WellFormedRow(csv_rows[i2]) =>
                          \E j \in 1..Len(HandedToUpload) :
                              HandedToUpload[j]["admission_number"]
                                  = csv_rows[i2].admission_no

\* C18: after a run that reached Done with no failed request, every student
\* record has a list-valued, non-empty sections without duplicate entries.
C18_SectionsNonEmptyNoDuplicates ==
    (pc = "Done" /\ failedOp = "none") =>
        \A k \in DOMAIN students :
            /\ HasListSections(students[k])
            /\ students[k]["sections"].v # <<>>
            /\ \A i, j \in 1..Len(students[k]["sections"].v) :
                  students[k]["sections"].v[i] = students[k]["sections"].v[j]
                      => i = j

\* C19: every section record a run created is stored under the slug of its
\* name (lower-cased, spaces replaced by underscores).
C19_SectionKeyIsSlug ==
    \A k \in createdKeys :
        /\ k \in DOMAIN sections
        /\ k = Slug(sections[k]["name"])

\* The defects of the claim: a student record without sections, with a
\* sections that is no list, or with an empty list; a section record without
\* one of name, students, teachers (one defect per missing field).
StudentDefect(r) ==
    IF "sections" \notin DOMAIN r THEN TRUE
    ELSE IF r["sections"].t # "list" THEN TRUE
    ELSE Len(r["sections"].v) = 0

MissingFields(r) == {"name", "students", "teachers"} \ DOMAIN r

RECURSIVE CountMissing(_, _)
CountMissing(sec, keys) ==
    IF keys = {} THEN 0
    ELSE LET k == CHOOSE x \in keys : TRUE
         IN  Cardinality(MissingFields(sec[k])) + CountMissing(sec, keys \ {k})

DefectCount(stu, sec) ==
    Cardinality({k \in DOMAIN stu : StudentDefect(stu[k])})
        + CountMissing(sec, DOMAIN sec)

C13_BackupRestoreRoundTrip ==
    (bk_outcome = "restored" /\ bk_writes = 0) =>
        /\ students = bk_tree[1]
        /\ sections = bk_tree[2]

C13_Witness ==
    /\ bk_outcome = "restored"
    /\ bk_writes = 0
    /\ bk_file.data # Null
    /\ "students" \in DOMAIN bk_file.data
    /\ bk_file.data["students"].t = "array"
    /\ "sections" \in DOMAIN bk_file.data
    /\ students = bk_tree[1]

\* The operator answered yes, in any case of the letters.
AnsweredYes(response) ==
    /\ response.given
    /\ Len(response.text) = 3
    /\ response.text[1] \in {"y", "Y"}
    /\ response.text[2] \in {"e", "E"}
    /\ response.text[3] \in {"s", "S"}

C14_GateState ==
    /\ bk_puts <= 1
    /\ bk_puts > 0 => bk_file.exists /\ (bk_confirm \/ AnsweredYes(bk_response))
    /\ bk_outcome \in {"cancelled", "missing"} => bk_puts = 0

C14_GateStep ==
    (students' # students \/ sections' # sections) =>
        \/ bk_writes' = bk_writes + 1
        \/ /\ bk_puts' = bk_puts + 1
           /\ bk_file.exists
           /\ bk_confirm \/ AnsweredYes(bk_response)

\* C14: a restore call issues at most one root PUT, and only when confirm
\* was passed or the operator answered yes; a call that was cancelled or
\* found no file issues none, and no step of such a call changes the store.
C14_RestoreGated == [](C14_GateState) /\ [][C14_GateStep]_vars

C14_Witness ==
    /\ bk_outcome = "cancelled"
    /\ bk_response.given
    /\ bk_response.text = <<"y", "e", "s", " ">>
    /\ bk_puts = 0
    /\ students # EmptyObj

\* The id of a completed add is not in the list of its section.
LostUpdate ==
    \E a \in ix_added :
        a[2] \notin Range(ListRead(sections, a[3], FieldOf(a[1])))

\* C15: a client that writes a list it had read before another client's
\* write of the same list drops an id whose add had completed, and an id of
\* a completed add is missing from its list only after such a write; two
\* clients adding different ids to the same section reach that state.
C15_StaleWriteLosesUpdate ==
    /\ [](LostUpdate => ix_stale)
    /\ [][(~ix_stale /\ ix_stale') => LostUpdate']_vars

C15_Witness ==
    /\ \A c \in Clients : ix_pc[c] = "Idle"
    /\ ~ix_failed
    /\ \E a, b \in ix_added :
          /\ a[1] = b[1] /\ a[3] = b[3] /\ a[2] # b[2]
          /\ a[2] \notin Range(ListRead(sections, a[3], FieldOf(a[1])))
          /\ b[2] \in Range(ListRead(sections, b[3], FieldOf(b[1])))

\* The number of times id occurs in list.
Occurrences(list, id) == Cardinality({i \in 1..Len(list) : list[i] = id})

AllIdle == \A c \in Clients : ix_pc[c] = "Idle"

C16_IndexState ==
    (AllIdle /\ ~ix_failed /\ ~ix_interleaved) =>
        /\ \A id \in DOMAIN students :
              \A i \in 1..Len(students[id]["sections"].v) :
                  Occurrences(ListRead(sections, students[id]["sections"].v[i],
                                       "students"), id) = 1
        /\ \A id \in DOMAIN teachers :
              \A i \in 1..Len(teachers[id]["assignedSections"].v) :
                  Occurrences(ListRead(sections, teachers[id]["assignedSections"].v[i],
                                       "teachers"), id) = 1

C16_IndexStep ==
    /\ ~ix_interleaved' =>
          \A x \in DOMAIN sections : \A f \in {"students", "teachers"} :
              Range(ListRead(sections, x, f)) \subseteq Range(ListRead(sections', x, f))
    /\ sections' # sections =>
          \E c \in Clients :
              /\ ix_pc[c] = "Writing"
              /\ ix_id[c] \notin
                    Range(ListRead(sections, Head(ix_todo[c]), FieldOf(ix_kind[c])))

\* C16: after completed calls that did not overlap and met no failure, the
\* list of every section an entity was added with holds its id exactly once;
\* no step of such calls drops an id from a list, and a list is written only
\* for an id it does not hold.
C16_AddKeepsIndex == [](C16_IndexState) /\ [][C16_IndexStep]_vars

C16_Witness ==
    /\ AllIdle /\ ~ix_failed /\ ~ix_interleaved
    /\ ix_calls = 2
    /\ \E id \in DOMAIN students :
          /\ students[id]["sections"].v = <<NameA, NameA>>
          /\ Len(ListRead(sections, NameA, "students")) = 3

\* C21: when the run is Done, the sections count of the summary is the
\* number of section records the run created, and the migrated count is the
\* number of student records it rewrote.
C21_SummaryCounts ==
    pc = "Done" =>
        /\ Summary.sections_created = Cardinality(createdKeys)
        /\ Summary.migrated = Cardinality(rewritten)

\* C23: the sections collection has no entry keyed or named "default".
C23_NoSentinelSection ==
    \A k \in DOMAIN sections :
        /\ k # Default
        /\ "name" \in DOMAIN sections[k] => sections[k]["name"] # Default

\* C24: when a run that ended early is followed by a run that reaches Done,
\* every section name (but the sentinel) in the sections of a student that
\* either run rewrote has a section record of that name.
C24_RerunCreatesAllSections ==
    (runs >= 2 /\ prevOutcome = "Exited" /\ pc = "Done") =>
        \A k \in DOMAIN students :
            (HasListSections(students[k]) /\ students[k]["updatedAt"] > 0) =>
                \A i \in 1..Len(students[k]["sections"].v) :
                    WantsSection(students[k]["sections"].v[i]) =>
                        \E key \in DOMAIN sections :
                            /\ "name" \in DOMAIN sections[key]
                            /\ sections[key]["name"] = students[k]["sections"].v[i]

\* An id of a completed add is missing from the list of its section.
Lost(a) == a[2] \notin Range(ListRead(sections, a[3], FieldOf(a[1])))

C28_NoLossAcrossKinds ==
    \A a \in ix_added :
        Lost(a) => \E b \in ix_added : b[1] = a[1] /\ b[3] = a[3] /\ b[2] # a[2]

C28_OtherFieldsKept ==
    \A x \in DOMAIN sections :
        /\ x \in DOMAIN sections'
        /\ \A f \in DOMAIN sections[x] :
              /\ f \in DOMAIN sections'[x]
              /\ sections'[x][f] # sections[x][f] =>
                    \E c \in Clients :
                        /\ ix_pc[c] = "Writing"
                        /\ Head(ix_todo[c]) = x
                        /\ FieldOf(ix_kind[c]) = f

\* C28: a write of a students (teachers) list leaves every other field of
\* the section as it is, and the id of a completed add is missing from its
\* list only when another id of the same kind was added to the same section:
\* a student-add and a teacher-add never lose each other's update.
C28_SubPathWrites == [](C28_NoLossAcrossKinds) /\ [][C28_OtherFieldsKept]_vars

C28_Witness ==
    /\ \A c \in Clients : ix_pc[c] = "Idle"
    /\ ix_interleaved /\ ~ix_failed
    /\ ix_calls = 2
    /\ \E a, b \in ix_added :
          /\ a[1] = "student" /\ b[1] = "teacher" /\ a[3] = b[3]
          /\ ~Lost(a) /\ ~Lost(b)
          /\ a[3] \in DOMAIN sections
          /\ DOMAIN sections[a[3]] = {"students", "teachers"}

\* C25: no step of an upload (or of another command) removes an entry from
\* the students or teachers list of a section record: the record stays and
\* its lists keep their entries.
C25_UploadKeepsMembership ==
    [][\A k \in DOMAIN sections : \A f \in {"students", "teachers"} :
          f \in DOMAIN sections[k] =>
              /\ k \in DOMAIN sections'
              /\ f \in DOMAIN sections'[k]
              /\ Range(sections[k][f]) \subseteq Range(sections'[k][f])]_vars

\* C30: the total of the summary is the number of student records the
\* uploads have stored, and no section is counted whose call stored none.
C30_SummaryCountsWritten ==
    upc = "Idle" =>
        /\ total_students = written_total
        /\ successful_migrations > 0 => written_total > 0

\* C22: a removal leaves every section record as it was, the lists that
\* hold the removed id included, and the other collection too; it deletes
\* the record of the id and nothing else, and issues no DELETE when the id
\* has no record.
C22_RemoveOnlyRecord ==
    /\ ad_op = "remove_student" =>
          /\ sections = ad_before[2]
          /\ teachers = ad_before[3]
          /\ students = [k \in DOMAIN ad_before[1] \ {ad_id} |-> ad_before[1][k]]
          /\ ad_deletes = IF ad_id \in DOMAIN ad_before[1] THEN 1 ELSE 0
    /\ ad_op = "remove_teacher" =>
          /\ sections = ad_before[2]
          /\ students = ad_before[1]
          /\ teachers = [k \in DOMAIN ad_before[3] \ {ad_id} |-> ad_before[3][k]]
          /\ ad_deletes = IF ad_id \in DOMAIN ad_before[3] THEN 1 ELSE 0

C22_Witness ==
    /\ ad_op = "remove_student"
    /\ ad_deletes = 1
    /\ ad_id \notin DOMAIN students
    /\ \E x \in DOMAIN sections : ad_id \in Range(ListRead(sections, x, "students"))

\* C26: after the import of a row, the record written has a non-empty list
\* as its sections, and the only section whose record differs from before
\* is the one named in the section column.
C26_ImportRowWellFormed ==
    ad_op = "import_students_csv" =>
        /\ HasListSections(students[ad_id])
        /\ students[ad_id]["sections"].v # <<>>
        /\ \A x \in (DOMAIN sections \cup DOMAIN ad_before[2]) \ {ad_args[1]} :
              /\ x \in DOMAIN sections /\ x \in DOMAIN ad_before[2]
              /\ sections[x] = ad_before[2][x]

\* C27: when the validator passes on the store before an add_student or an
\* add_teacher with a non-empty sections list, it passes on the store after.
C27_AddKeepsValidation ==
    (ad_op \in {"add_student", "add_teacher"} /\ ad_args # <<>>
        /\ ValidationReport(ad_before[1], ad_before[2]).pass) =>
        ValidationReport(students, sections).pass

\* C29: after an edit, every section of the new list holds the id in its
\* students (resp. teachers) list, and the createdAt of the record is kept.
C29_EditKeepsIndex ==
    /\ ad_op = "edit_student" =>
          /\ \A i \in 1..Len(ad_args) :
                ad_id \in Range(ListRead(sections, ad_args[i], "students"))
          /\ "createdAt" \in DOMAIN ad_before[1][ad_id] =>
                /\ "createdAt" \in DOMAIN students[ad_id]
                /\ students[ad_id]["createdAt"] = ad_before[1][ad_id]["createdAt"]
    /\ ad_op = "edit_teacher" =>
          /\ \A i \in 1..Len(ad_args) :
                ad_id \in Range(ListRead(sections, ad_args[i], "teachers"))
          /\ "createdAt" \in DOMAIN ad_before[3][ad_id] =>
                /\ "createdAt" \in DOMAIN teachers[ad_id]
                /\ teachers[ad_id]["createdAt"] = ad_before[3][ad_id]["createdAt"]

====
